---------------------------- MODULE Spec2Model ----------------------------
(***************************************************************************)
(* Model of bot.py: a Telegram bot that periodically fetches image posts   *)
(* of a fixed list of subreddits into an in-memory cache and serves them   *)
(* through /start and three inline buttons (prev, random, next).           *)
(*                                                                         *)
(* Tasks are coroutines of one asyncio event loop: a step of the model is  *)
(* the code between two awaits.  The telegram Application runs handlers    *)
(* one update at a time (ApplicationBuilder() without concurrent updates), *)
(* so at most one handler invocation is in flight; the refresh task        *)
(* interleaves with it at every await.                                     *)
(*                                                                         *)
(* The model follows one conversation.  A handler reads and writes only    *)
(* the user_data of its own conversation and only reads the cache, so the  *)
(* handlers of other conversations are stuttering steps of this one.       *)
(***************************************************************************)
EXTENDS Integers, Sequences, FiniteSets, TLC

(* ------------------------------ bounds --------------------------------- *)

\* Number of configured subreddits kept in the model.
NumTopics == 2

\* Longest data array of an enumerated search response.
MaxData == 3

(* ----------------------------- constants ------------------------------- *)

MAX_POSTS_PER_SUB == 50

\* A slice of the configured list, in its configured order.
SUBREDDITS == SubSeq(<<"cats", "dogs", "puppies", "kittens">>, 1, NumTopics)

Topics == {SUBREDDITS[j] : j \in 1..Len(SUBREDDITS)}

\* Python's None, as a dictionary key and as a value of user_data.
None == "None"

NoPost == [id |-> None, title |-> "", url |-> <<>>]

(* ------------------------- strings as characters ----------------------- *)

UpperCase == <<"A","B","C","D","E","F","G","H","I","J","K","L","M",
               "N","O","P","Q","R","S","T","U","V","W","X","Y","Z">>
LowerCase == <<"a","b","c","d","e","f","g","h","i","j","k","l","m",
               "n","o","p","q","r","s","t","u","v","w","x","y","z">>

\* The lower-case letter of every upper-case letter.
LowerOf ==
    [c \in {UpperCase[j] : j \in 1..26} |->
        LowerCase[CHOOSE j \in 1..26 : UpperCase[j] = c]]

\* str.lower() on one character.
LowerChar(c) == IF c \in DOMAIN LowerOf THEN LowerOf[c] ELSE c

\* str.lower()
lower(s) == [j \in 1..Len(s) |-> LowerChar(s[j])]

\* str.endswith(suffix)
endswith(s, suffix) ==
    /\ Len(s) >= Len(suffix)
    /\ SubSeq(s, Len(s) - Len(suffix) + 1, Len(s)) = suffix

ImageExts == << <<".","j","p","g">>, <<".","j","p","e","g">>,
                <<".","p","n","g">>, <<".","g","i","f">> >>

\* Variant: the extension test without lower().
HasImageExt_CaseSensitive(img_url) ==
    \E e \in 1..Len(ImageExts) : endswith(img_url, ImageExts[e])

\* any(img_url.lower().endswith(ext) for ext in [...])
HasImageExt(img_url) ==
    LET lowered == lower(img_url)
    IN  \E e \in 1..Len(ImageExts) : endswith(lowered, ImageExts[e])

(* ------------------------- the search response ------------------------- *)

\* A JSON value of a submission: a string, a number, or a missing key.
JStr(v) == [t |-> "str", v |-> v]
JInt(v) == [t |-> "int", v |-> v]
JAbsent == [t |-> "absent", v |-> <<>>]

\* Submissions the search service may return.
SubCat   == [id |-> "1", title |-> JStr("A cat"),
             url |-> JStr(<<"x","/","a",".","j","p","g">>)]
SubDog   == [id |-> "2", title |-> JAbsent,
             url |-> JStr(<<"x","/","b",".","P","n","G">>)]
SubVideo == [id |-> "3", title |-> JStr("A clip"),
             url |-> JStr(<<"x","/","c",".","j","p","g","?","v">>)]
SubText  == [id |-> "4", title |-> JStr("A text"), url |-> JAbsent]
SubEmpty == [id |-> "5", title |-> JStr("No link"), url |-> JStr(<<>>)]
SubBad   == [id |-> "6", title |-> JStr("Odd"), url |-> JInt(<<"7">>)]

Submissions == {SubCat, SubDog, SubVideo, SubText, SubEmpty, SubBad}

\* The outcome of session.get(url) and resp.json(): the call raises, or it
\* yields a JSON object whose "data" array is arr.
NetError == [ok |-> FALSE, arr |-> <<>>]
Response(arr) == [ok |-> TRUE, arr |-> arr]

\* A response whose data array is longer than the requested page size.
Oversize == Response([j \in 1..(MAX_POSTS_PER_SUB + 1) |-> SubCat])

SeqsUpTo(S, n) == UNION {[1..m -> S] : m \in 0..n}

\* Every outcome of a request the feed specification enumerates.
Outcomes ==
    {NetError, Oversize} \cup {Response(a) : a \in SeqsUpTo(Submissions, MaxData)}

\* The outcomes the whole-bot specification draws from: one for each path
\* through fetch_subreddit (raise before the loop, nothing retained, posts
\* retained, raise after a post was retained, raise before any was).
ServiceOutcomes ==
    { NetError,
      Response(<<SubText, SubVideo>>),
      Response(<<SubEmpty, SubCat, SubDog>>),
      Response(<<SubDog, SubBad, SubCat>>),
      Response(<<SubBad, SubCat>>) }

\* Python truthiness of post.get("url").
Falsy(x) ==
    \/ x.t = "absent"
    \/ x.t = "str" /\ x.v = <<>>
    \/ x.t = "int" /\ x.v = <<"0">>

\* dict.get(key, default) on a JSON value.
GetOr(x, default) == IF x.t = "absent" THEN default ELSE x.v

\* The post record appended for one submission.
MakePost(post) ==
    [id |-> post.id, title |-> GetOr(post.title, "(no title)"), url |-> post.url.v]

\* One iteration of the loop over data["data"]: the posts so far, and whether
\* the iteration raised (str method called on a non-string url).
LoopBody(acc, post) ==
    IF Falsy(post.url) THEN [posts |-> acc, raised |-> FALSE]
    ELSE IF post.url.t # "str" THEN [posts |-> acc, raised |-> TRUE]
    ELSE IF HasImageExt(post.url.v)
         THEN [posts |-> Append(acc, MakePost(post)), raised |-> FALSE]
         ELSE [posts |-> acc, raised |-> FALSE]

RECURSIVE Loop(_, _, _)
Loop(arr, j, acc) ==
    IF j > Len(arr) THEN [posts |-> acc, raised |-> FALSE]
    ELSE LET r == LoopBody(acc, arr[j])
         IN  IF r.raised THEN r ELSE Loop(arr, j + 1, r.posts)

\* fetch_subreddit(sub) on the outcome o of its request: the posts returned
\* and whether the except branch logged a warning.
fetch_subreddit(o) ==
    IF ~o.ok THEN [posts |-> <<>>, raised |-> TRUE]
    ELSE Loop(o.arr, 1, <<>>)

(* --------------------------- outbound calls ---------------------------- *)

\* message_id=None of send_random_post.
NoMessageId == 0

\* Message ids a callback query may carry (Telegram ids are positive).
MaxMessageId == 1
MessageIds == 1..MaxMessageId

Actions == {"prev", "random", "next"}

\* The final character of the source text, an ellipsis, is written as three dots.
GreetingText == "Hey yx babe, Cheng is finding a random cute post..."
OopsText == "Oops, something went wrong lol, try again later."

\* Variant: the caption without the "r/" prefix.
Caption_NoPrefix(post, sub) == post.title \o "\n/" \o sub

\* f"{post['title']}\n/r/{sub}"
Caption(post, sub) == post.title \o "\n/r/" \o sub

\* f"No cached posts for r/{sub}."
NoCacheText(sub) == "No cached posts for r/" \o sub \o "."

\* A call to the chat platform: target is the message it edits, NoMessageId
\* when it sends a new message; status is "pending" until the await ends.
Call(op, target, text, photo) ==
    [op |-> op, target |-> target, text |-> text, photo |-> photo,
     status |-> "pending"]

ReplyText(text)              == Call("reply_text", NoMessageId, text, <<>>)
ReplyPhoto(photo, caption)   == Call("reply_photo", NoMessageId, caption, photo)
EditMedia(m, photo, caption) == Call("edit_message_media", m, caption, photo)
EditCaption(m, text)         == Call("edit_message_caption", m, text, <<>>)
AnswerQuery(m)               == Call("answer", m, "", <<>>)

(* ------------------------------- state --------------------------------- *)

VARIABLES
    reddit_cache,   \* subreddit -> sequence of posts
    stored,         \* subreddits whose entry update_all_subreddits has assigned
    i,              \* position of update_all_subreddits in SUBREDDITS;
                    \* Len(SUBREDDITS) + 1 while periodic_reddit_update sleeps
    data,           \* the outcome of the request of the latest fetch
    posts,          \* the result of the latest fetch_subreddit call
    warned,         \* whether that call logged "Failed to fetch"
    user_data,      \* context.user_data of the conversation
    h,              \* the handler invocation in flight, or the last one
    out,            \* the calls that invocation has made, in order
    rendered        \* history, kept by SpecShown only (no handler reads it):
                    \* the subreddit and the post of the latest photo that a
                    \* send or an edit of the conversation has delivered

vars == <<reddit_cache, stored, i, data, posts, warned, user_data, h, out, rendered>>

refresh_vars == <<reddit_cache, stored, i, data, posts, warned>>

\* reddit_cache.get(sub, [])
CacheGet(sub) == IF sub \in DOMAIN reddit_cache THEN reddit_cache[sub] ELSE <<>>

Range(s) == {s[j] : j \in 1..Len(s)}

\* The values random.choice(s) may return; the draw is not made on an empty s.
Draws(s) == IF s = <<>> THEN {NoPost} ELSE Range(s)

NoSession == [last_sub |-> None, last_post |-> NoPost]

NoHandler ==
    [op |-> "none", action |-> None, mid |-> NoMessageId,
     pc |-> "idle", sub |-> None, post |-> NoPost,
     result |-> "returned", warned |-> FALSE]

Init ==
    /\ reddit_cache = [sub \in Topics |-> <<>>]
    /\ stored = {}
    /\ i = 1
    /\ data = Response(<<>>)
    /\ posts = <<>>
    /\ warned = FALSE
    /\ user_data = NoSession
    /\ h = NoHandler
    /\ out = <<>>
    /\ rendered = NoSession

(* ---------------------------- refresh loop ----------------------------- *)

\* Variant: the fetched posts are appended to the entry (extend, not assign).
StoreFetched_Merge(cache, sub, ps) ==
    IF ps # <<>> THEN [cache EXCEPT ![sub] = cache[sub] \o ps] ELSE cache

\* Variant: every subreddit shares one list (dict.fromkeys(SUBREDDITS, [])
\* filled in place).
StoreFetched_Shared(cache, sub, ps) ==
    IF ps # <<>> THEN [t \in DOMAIN cache |-> ps] ELSE cache

\* Variant: the entry is assigned whatever the fetch returned, without the
\* test of line 90.
StoreFetched_Always(cache, sub, ps) == [cache EXCEPT ![sub] = ps]

\* if posts: reddit_cache[sub] = posts
StoreFetched(cache, sub, ps) ==
    IF ps # <<>> THEN [cache EXCEPT ![sub] = ps] ELSE cache

\* One iteration of the loop of update_all_subreddits: fetch, then store.
UpdateStep(o) ==
    /\ i <= Len(SUBREDDITS)
    /\ LET sub == SUBREDDITS[i]
           r   == fetch_subreddit(o)
       IN  /\ data' = o
           /\ posts' = r.posts
           /\ warned' = r.raised
           /\ reddit_cache' = StoreFetched(reddit_cache, sub, r.posts)
           /\ stored' = IF r.posts # <<>> THEN stored \cup {sub} ELSE stored
    /\ i' = i + 1
    /\ UNCHANGED <<user_data, h, out, rendered>>

\* Variant: periodic_reddit_update without its while True; the task ends after
\* the first cycle.
Sleep_Once ==
    /\ i = Len(SUBREDDITS) + 1
    /\ UNCHANGED vars

\* periodic_reddit_update: the cycle is over, sleep, start the next cycle.
Sleep ==
    /\ i = Len(SUBREDDITS) + 1
    /\ i' = 1
    /\ UNCHANGED <<reddit_cache, stored, data, posts, warned, user_data, h, out,
                   rendered>>

(* ------------------------------ handlers ------------------------------- *)

Idle == h.result # "running"

Last(calls) == calls[Len(calls)]

\* The awaited call has ended well.
Acked(calls) == [calls EXCEPT ![Len(calls)].status = "ok"]
Failed(calls) == [calls EXCEPT ![Len(calls)].status = "failed"]

\* start, up to its first await (reply_text).
StartBegin ==
    /\ Idle
    /\ h' = [NoHandler EXCEPT !.op = "start",
                              !.pc = "reply_greeting", !.result = "running"]
    /\ out' = <<ReplyText(GreetingText)>>
    /\ UNCHANGED <<refresh_vars, user_data, rendered>>

\* Variant: last_sub is recorded before the cache entry is tested.
send_random_post_EagerSession(ud, message_id, sub, post) ==
    IF CacheGet(sub) = <<>>
    THEN [ud |-> [ud EXCEPT !.last_sub = sub], call |-> ReplyText(OopsText),
          pc |-> "reply_oops", post |-> NoPost]
    ELSE [ud   |-> [last_sub |-> sub, last_post |-> post],
          call |-> IF message_id # NoMessageId
                   THEN EditMedia(message_id, post.url, Caption(post, sub))
                   ELSE ReplyPhoto(post.url, Caption(post, sub)),
          pc   |-> IF message_id # NoMessageId
                   THEN "edit_message_media" ELSE "reply_photo",
          post |-> post]

\* Variant: line 130 is missing; last_post is recorded, last_sub is not.
send_random_post_KeepSub(ud, message_id, sub, post) ==
    IF CacheGet(sub) = <<>>
    THEN [ud |-> ud, call |-> ReplyText(OopsText), pc |-> "reply_oops",
          post |-> NoPost]
    ELSE [ud   |-> [ud EXCEPT !.last_post = post],
          call |-> IF message_id # NoMessageId
                   THEN EditMedia(message_id, post.url, Caption(post, sub))
                   ELSE ReplyPhoto(post.url, Caption(post, sub)),
          pc   |-> IF message_id # NoMessageId
                   THEN "edit_message_media" ELSE "reply_photo",
          post |-> post]

\* send_random_post up to its await, for the draws sub and post: the new
\* user_data of the conversation, the call it awaits, and where it waits.
send_random_post(ud, message_id, sub, post) ==
    IF CacheGet(sub) = <<>>
    THEN [ud |-> ud, call |-> ReplyText(OopsText), pc |-> "reply_oops",
          post |-> NoPost]
    ELSE [ud   |-> [last_sub |-> sub, last_post |-> post],
          call |-> IF message_id # NoMessageId
                   THEN EditMedia(message_id, post.url, Caption(post, sub))
                   ELSE ReplyPhoto(post.url, Caption(post, sub)),
          pc   |-> IF message_id # NoMessageId
                   THEN "edit_message_media" ELSE "reply_photo",
          post |-> post]

\* start after the greeting was sent: send_random_post(update, context).
StartGreeted(sub, post) ==
    /\ h.result = "running" /\ h.pc = "reply_greeting"
    /\ post \in Draws(CacheGet(sub))
    /\ LET r == send_random_post(user_data, NoMessageId, sub, post)
       IN  /\ user_data' = r.ud
           /\ out' = Append(Acked(out), r.call)
           /\ h' = [h EXCEPT !.pc = r.pc, !.sub = sub, !.post = r.post]
    /\ UNCHANGED <<refresh_vars, rendered>>

\* button_handler, up to its first await (query.answer()).
ButtonBegin(a, m) ==
    /\ Idle
    /\ h' = [NoHandler EXCEPT !.op = "button", !.action = a,
                              !.mid = m, !.pc = "answer", !.result = "running"]
    /\ out' = <<AnswerQuery(m)>>
    /\ UNCHANGED <<refresh_vars, user_data, rendered>>

\* button_handler after query.answer(): no posts cached for last_sub.
ButtonNoCache ==
    /\ h.result = "running" /\ h.pc = "answer"
    /\ LET sub == user_data.last_sub
       IN  /\ CacheGet(sub) = <<>>
           /\ out' = Append(Acked(out), EditCaption(h.mid, NoCacheText(sub)))
           /\ h' = [h EXCEPT !.pc = "edit_message_caption"]
    /\ UNCHANGED <<refresh_vars, user_data, rendered>>

\* Variant: the action is dispatched before the entry of last_sub is tested.
ButtonRandom_DispatchFirst(sub, post) ==
    /\ h.result = "running" /\ h.pc = "answer"
    /\ h.action = "random"
    /\ post \in Draws(CacheGet(sub))
    /\ LET r == send_random_post(user_data, h.mid, sub, post)
       IN  /\ user_data' = r.ud
           /\ out' = Append(Acked(out), r.call)
           /\ h' = [h EXCEPT !.pc = r.pc, !.sub = sub, !.post = r.post]
    /\ UNCHANGED <<refresh_vars, rendered>>

\* button_handler after query.answer(), action "random":
\* send_random_post(update, context, message_id=query.message.message_id).
ButtonRandom(sub, post) ==
    /\ h.result = "running" /\ h.pc = "answer"
    /\ h.action = "random"
    /\ CacheGet(user_data.last_sub) # <<>>
    /\ post \in Draws(CacheGet(sub))
    /\ LET r == send_random_post(user_data, h.mid, sub, post)
       IN  /\ user_data' = r.ud
           /\ out' = Append(Acked(out), r.call)
           /\ h' = [h EXCEPT !.pc = r.pc, !.sub = sub, !.post = r.post]
    /\ UNCHANGED <<refresh_vars, rendered>>

\* Variant: a cursor; "next" shows the post after last_post in the entry and
\* "prev" the one before it, whatever was drawn.
next_prev_Cursor(ud, action, message_id, new_post) ==
    LET ps    == CacheGet(ud.last_sub)
        at    == IF \E j \in 1..Len(ps) : ps[j] = ud.last_post
                 THEN CHOOSE j \in 1..Len(ps) : ps[j] = ud.last_post
                 ELSE 1
        step  == IF action = "next" THEN 1 ELSE Len(ps) - 1
        shown == ps[((at - 1 + step) % Len(ps)) + 1]
    IN  [ud   |-> [ud EXCEPT !.last_post = shown],
         call |-> EditMedia(message_id, shown.url, Caption(shown, ud.last_sub))]

\* The next/prev branch of button_handler for the draw new_post: the new
\* user_data of the conversation and the edit it awaits.
next_prev(ud, action, message_id, new_post) ==
    [ud   |-> [ud EXCEPT !.last_post = new_post],
     call |-> EditMedia(message_id, new_post.url, Caption(new_post, ud.last_sub))]

\* Variant: the draw takes the post out of the cached list
\* (posts.pop(...) instead of random.choice(posts)).
ButtonNextPrev_Pop(new_post) ==
    /\ h.result = "running" /\ h.pc = "answer"
    /\ h.action # "random"
    /\ LET sub == user_data.last_sub
       IN  /\ CacheGet(sub) # <<>>
           /\ new_post \in Draws(CacheGet(sub))
           /\ LET r == next_prev(user_data, h.action, h.mid, new_post)
              IN  /\ user_data' = r.ud
                  /\ out' = Append(Acked(out), r.call)
           /\ h' = [h EXCEPT !.pc = "query.edit_message_media", !.sub = sub,
                             !.post = new_post]
           /\ reddit_cache' = [reddit_cache EXCEPT ![sub] =
                                 SelectSeq(@, LAMBDA p : p # new_post)]
    /\ UNCHANGED <<stored, i, data, posts, warned, rendered>>

\* button_handler after query.answer(), action "next" or "prev".
ButtonNextPrev(new_post) ==
    /\ h.result = "running" /\ h.pc = "answer"
    /\ h.action # "random"
    /\ LET sub == user_data.last_sub
       IN  /\ CacheGet(sub) # <<>>
           /\ new_post \in Draws(CacheGet(sub))
           /\ LET r == next_prev(user_data, h.action, h.mid, new_post)
              IN  /\ user_data' = r.ud
                  /\ out' = Append(Acked(out), r.call)
           /\ h' = [h EXCEPT !.pc = "query.edit_message_media", !.sub = sub,
                             !.post = new_post]
    /\ UNCHANGED <<refresh_vars, rendered>>

\* Where an exception of the awaited call goes: the try of button_handler
\* covers only query.edit_message_media.
OnException(pc) ==
    IF pc = "query.edit_message_media"
    THEN [result |-> "returned", warned |-> TRUE]
    ELSE [result |-> "raised", warned |-> FALSE]

\* The awaited call raises.
CallFails ==
    /\ h.result = "running"
    /\ out' = Failed(out)
    /\ h' = [h EXCEPT !.result = OnException(h.pc).result,
                      !.warned = OnException(h.pc).warned]
    /\ UNCHANGED <<refresh_vars, user_data, rendered>>

\* What the conversation shows once the call has been carried out: the photo
\* of post with its caption naming sub when the call sends or edits a photo,
\* what it showed before otherwise.
Delivered(before, call, sub, post) ==
    IF call.op \in {"reply_photo", "edit_message_media"}
    THEN [last_sub |-> sub, last_post |-> post]
    ELSE before

\* The last await of the handler returns: the handler returns.
CallReturns ==
    /\ h.result = "running"
    /\ h.pc \notin {"reply_greeting", "answer"}
    /\ out' = Acked(out)
    /\ h' = [h EXCEPT !.result = "returned"]
    /\ UNCHANGED <<refresh_vars, user_data, rendered>>

\* CallReturns, with the record of what the call has delivered.
CallReturnsShown ==
    /\ h.result = "running"
    /\ h.pc \notin {"reply_greeting", "answer"}
    /\ out' = Acked(out)
    /\ h' = [h EXCEPT !.result = "returned"]
    /\ rendered' = Delivered(rendered, Last(out), h.sub, h.post)
    /\ UNCHANGED <<refresh_vars, user_data>>

(* --------------------------- specifications ---------------------------- *)

Next ==
    \/ \E o \in ServiceOutcomes : UpdateStep(o)
    \/ Sleep
    \/ StartBegin
    \/ \E sub \in Topics : \E post \in Draws(CacheGet(sub)) :
          StartGreeted(sub, post)
    \/ \E a \in Actions, m \in MessageIds : ButtonBegin(a, m)
    \/ ButtonNoCache
    \/ \E sub \in Topics : \E post \in Draws(CacheGet(sub)) :
          ButtonRandom(sub, post)
    \/ \E post \in Draws(CacheGet(user_data.last_sub)) : ButtonNextPrev(post)
    \/ CallFails
    \/ CallReturns

\* The whole bot on the outcomes of ServiceOutcomes.
Spec == Init /\ [][Next]_vars

NextShown ==
    \/ \E o \in ServiceOutcomes : UpdateStep(o)
    \/ Sleep
    \/ StartBegin
    \/ \E sub \in Topics : \E post \in Draws(CacheGet(sub)) :
          StartGreeted(sub, post)
    \/ \E a \in Actions, m \in MessageIds : ButtonBegin(a, m)
    \/ ButtonNoCache
    \/ \E sub \in Topics : \E post \in Draws(CacheGet(sub)) :
          ButtonRandom(sub, post)
    \/ \E post \in Draws(CacheGet(user_data.last_sub)) : ButtonNextPrev(post)
    \/ CallFails
    \/ CallReturnsShown

\* The whole bot, with the history of what the conversation has been shown.
SpecShown == Init /\ [][NextShown]_vars

\* The first fetch of the refresh task, and the store that follows it.
FirstFetch(o) == i = 1 /\ UpdateStep(o)

NextFeed == \E o \in Outcomes : FirstFetch(o)

\* fetch_subreddit on every enumerated outcome of a request.
SpecFeed == Init /\ [][NextFeed]_vars

\* A step of the task periodic_reddit_update.
Refresh == (\E o \in ServiceOutcomes : UpdateStep(o)) \/ Sleep

\* The whole bot when the event loop keeps running the refresh task: every
\* request ends (with a response or an exception), asyncio.sleep ends, and
\* the loop then resumes the task. Nothing is assumed of the handlers.
SpecLive == Spec /\ WF_vars(Refresh)

(* ------------------------------ properties ----------------------------- *)

\* The step is one iteration of update_all_subreddits.
IsUpdateStep == i' = i + 1

\* C1: a fetch that fails (the except branch of fetch_subreddit logs its
\* warning) leaves the whole cache as it was, and the loop goes on to the
\* next subreddit.
C1_FailedFetchKeepsCache ==
    [][(IsUpdateStep /\ warned') => reddit_cache' = reddit_cache]_vars

\* C2: when the fetch of an iteration returns a non-empty list, the entry of
\* the fetched subreddit becomes exactly that list and every other entry is
\* left as it was.
C2_RefreshReplaces ==
    [][(IsUpdateStep /\ posts' # <<>>) =>
         /\ reddit_cache'[SUBREDDITS[i]] = posts'
         /\ \A t \in Topics \ {SUBREDDITS[i]} : reddit_cache'[t] = reddit_cache[t]
         /\ DOMAIN reddit_cache' = Topics]_vars

\* A later cycle has replaced the entry of the first subreddit by the two
\* posts of its fetch while the second subreddit keeps its one post.
C2_Witness ==
    /\ i = 2
    /\ Len(posts) = 2
    /\ reddit_cache[SUBREDDITS[1]] = posts
    /\ Len(reddit_cache[SUBREDDITS[2]]) = 1

\* C3: a lookup of a subreddit whose entry the refresh has not assigned yet,
\* or of a name that is no configured subreddit, yields the empty sequence.
C3_UnfetchedEmpty ==
    \A t \in Topics \cup {None, "unknown"} :
        t \notin stored => CacheGet(t) = <<>>

\* A handler has looked up a subreddit that is not stored yet while another
\* subreddit is.
C3_Witness ==
    /\ h.op = "start" /\ h.pc = "reply_oops"
    /\ h.sub \in Topics \ stored
    /\ stored # {}

\* C4: when start draws a subreddit with no cached posts it sends the fixed
\* failure text and nothing else after the greeting, shows no post, and no
\* step of the invocation, from the call to its end, changes user_data.
C4_StartEmptyCache ==
    [][/\ (h'.op = "start" /\ h'.pc \in {"reply_greeting", "reply_oops"}) =>
            /\ user_data' = user_data
            /\ h'.pc = "reply_oops" =>
                   /\ h'.post = NoPost
                   /\ Len(out') = 2
                   /\ out'[2].op = "reply_text"
                   /\ out'[2].text = "Oops, something went wrong lol, try again later."
                   /\ out'[2].photo = <<>>
       /\ ( /\ h.op = "start" /\ h.result = "running" /\ h.pc = "reply_greeting"
            /\ h'.pc # "reply_greeting"
            /\ CacheGet(h'.sub) = <<>> ) => h'.pc = "reply_oops"]_vars

\* start has returned after the failure text although the conversation had
\* been shown a post of another subreddit before (which therefore has posts).
C4_Witness ==
    /\ h.op = "start" /\ h.pc = "reply_oops" /\ h.result = "returned"
    /\ user_data.last_sub \in Topics \ {h.sub}

\* The step in which start, its greeting sent, draws a subreddit with posts.
StartShowsPost ==
    /\ h.op = "start" /\ h.result = "running" /\ h.pc = "reply_greeting"
    /\ h'.pc # "reply_greeting"
    /\ CacheGet(h'.sub) # <<>>

C6_RandomLikeStartButEdits ==
    [][( /\ h.op = "button" /\ h.action = "random"
         /\ h.result = "running" /\ h.pc = "answer"
         /\ h'.pc # "answer"
         /\ CacheGet(user_data.last_sub) # <<>> ) =>
         LET s == send_random_post(user_data, NoMessageId, h'.sub, h'.post)
         IN  /\ user_data' = s.ud
             /\ Last(out').text = s.call.text
             /\ Last(out').photo = s.call.photo
             /\ Last(out').op \in {"edit_message_media", "edit_message_caption"}
             /\ Last(out').target = h.mid]_vars

\* The step in which button_handler, its query answered, takes the next/prev
\* branch.
NextPrevStep ==
    /\ h.op = "button" /\ h.action \in {"next", "prev"}
    /\ h.result = "running" /\ h.pc = "answer"
    /\ h'.pc # "answer"
    /\ CacheGet(user_data.last_sub) # <<>>

\* C7: with posts cached for last_sub, "next" and "prev" both draw a post of
\* the current entry of last_sub, record it as last_post, leave last_sub as it
\* is and edit the message of the button to that post; the outcome of a draw
\* is the same for the two actions.
C7_NextPrevAlike ==
    [][NextPrevStep =>
         LET ud == user_data
         IN  /\ h'.pc = "query.edit_message_media"
             /\ h'.post \in Range(reddit_cache[ud.last_sub])
             /\ user_data' = [last_sub |-> ud.last_sub, last_post |-> h'.post]
             /\ Len(out') = 2
             /\ out'[2].op = "edit_message_media"
             /\ out'[2].target = h.mid
             /\ out'[2].photo = h'.post.url
             /\ out'[2].text = h'.post.title \o "\n/r/" \o ud.last_sub
             /\ \A p \in Range(reddit_cache[ud.last_sub]) :
                    next_prev(ud, "next", h.mid, p) = next_prev(ud, "prev", h.mid, p)]_vars

\* "prev" has drawn the second post of an entry of two posts.
C7_Witness ==
    /\ h.op = "button" /\ h.action = "prev" /\ h.pc = "query.edit_message_media"
    /\ user_data = [last_sub |-> h.sub, last_post |-> h.post]
    /\ Len(reddit_cache[h.sub]) = 2
    /\ h.post = reddit_cache[h.sub][2]

\* The ids of a sequence of submissions or posts.
Ids(s) == [j \in 1..Len(s) |-> s[j].id]

\* The submissions of the model whose url is a string ending, in any case, in
\* .jpg, .jpeg, .png or .gif: x/a.jpg and x/b.PnG.
Qualifying(arr) == SelectSeq(arr, LAMBDA s : s.id \in {"1", "2"})

\* The submissions before the first one whose url is a number other than 0.
BeforeRaise(arr) ==
    IF \E j \in 1..Len(arr) : arr[j].id = "6"
    THEN SubSeq(arr, 1, (CHOOSE j \in 1..Len(arr) :
                            /\ arr[j].id = "6"
                            /\ \A m \in 1..(j - 1) : arr[m].id # "6") - 1)
    ELSE arr

C9_AtMostMaxPosts ==
    /\ Len(posts) <= MAX_POSTS_PER_SUB
    /\ \A t \in Topics : Len(reddit_cache[t]) <= MAX_POSTS_PER_SUB

\* C10: when the media edit of a button press fails, button_handler logs the
\* failure and returns normally, and sends no new message.
C10_EditFailureSwallowed ==
    ( /\ h.op = "button" /\ h.result # "running"
      /\ Last(out).op = "edit_message_media"
      /\ Last(out).status = "failed" ) =>
        /\ h.result = "returned"
        /\ h.warned
        /\ \A j \in 1..Len(out) : out[j].target # NoMessageId

\* C11: every step that changes reddit_cache is an iteration of
\* update_all_subreddits; no step of start or of button_handler, whatever the
\* action and whether its calls return or raise, changes any entry.
C11_OnlyRefreshWritesCache ==
    [][/\ reddit_cache' # reddit_cache =>
            (IsUpdateStep /\ h' = h /\ out' = out /\ user_data' = user_data)
       /\ (h' # h \/ out' # out \/ user_data' # user_data) =>
            reddit_cache' = reddit_cache]_vars

\* start has drawn a post of a cached entry and has raised out of the failed
\* send of its photo, while every subreddit has posts cached.
C11_Witness ==
    /\ h.op = "start" /\ h.result = "raised" /\ h.pc = "reply_photo"
    /\ h.post \in Range(reddit_cache[h.sub])
    /\ \A t \in Topics : reddit_cache[t] # <<>>

C13_RefreshForever ==
    /\ [][/\ i' # i =>
               IF i <= Len(SUBREDDITS) THEN i' = i + 1 ELSE i' = 1
          /\ i' \in 1..(Len(SUBREDDITS) + 1)
          /\ \A t \in Topics :
                reddit_cache'[t] # reddit_cache[t] =>
                    (i <= Len(SUBREDDITS) /\ t = SUBREDDITS[i] /\ i' = i + 1)]_vars
    /\ \A k \in 1..Len(SUBREDDITS) : []<><<i = k /\ i' = k + 1>>_vars
    /\ []<><<i = Len(SUBREDDITS) + 1 /\ i' = 1>>_vars

\* A later cycle is under way after a cycle that stored every subreddit, and
\* the fetch of its first subreddit has failed.
C13_Witness ==
    /\ i = 2
    /\ warned /\ ~data.ok
    /\ stored = Topics

\* The step in which a handler, its first call ended, reads the cache and
\* goes on to its next call.
HandlerReads ==
    /\ h.result = "running" /\ h.pc \in {"reply_greeting", "answer"}
    /\ h'.pc # h.pc

\* The lists fetch_subreddit returns on the outcomes of ServiceOutcomes.
FetchedLists == {fetch_subreddit(o).posts : o \in ServiceOutcomes}

\* C14: an entry changes only in the iteration that fetches its subreddit,
\* and then to the whole list that fetch returned; so every entry is empty or
\* the whole list of one fetch, and it is the list of the latest iteration
\* that stored one. A handler reads the entry as it is in the state of its
\* step: the post it shows is a post of that entry, and it takes the branch
\* without posts only when that entry is empty.
C14_ReadsWholeFetch ==
    [][/\ \A t \in Topics :
             reddit_cache'[t] # reddit_cache[t] =>
                 /\ IsUpdateStep /\ i <= Len(SUBREDDITS) /\ t = SUBREDDITS[i]
                 /\ reddit_cache'[t] = fetch_subreddit(data').posts
       /\ \A t \in Topics : reddit_cache'[t] \in {<<>>} \cup FetchedLists
       /\ HandlerReads =>
             /\ reddit_cache' = reddit_cache
             /\ h'.pc = "edit_message_caption" =>
                    CacheGet(user_data.last_sub) = <<>>
             /\ h'.pc = "reply_oops" => reddit_cache[h'.sub] = <<>>
             /\ h'.pc \in {"reply_photo", "edit_message_media",
                            "query.edit_message_media"} =>
                    h'.post \in Range(reddit_cache[h'.sub])]_vars

\* A button press shows the second post of the two posts the latest fetch of
\* the first subreddit returned, while the refresh task is in a later cycle
\* and waits for the fetch of the second subreddit.
C14_Witness ==
    /\ i = 2 /\ stored = Topics
    /\ ~warned /\ Len(posts) = 2
    /\ h.op = "button" /\ h.action = "next" /\ h.result = "running"
    /\ h.pc = "query.edit_message_media"
    /\ h.sub = SUBREDDITS[1]
    /\ reddit_cache[h.sub] = posts
    /\ h.post = posts[2]

\* C15: when button_handler, its query answered, finds no posts cached for
\* last_sub (None included), then whatever the action it edits the caption of
\* the message of the button to "No cached posts for r/<last_sub>." and
\* returns after that call: it draws no subreddit and no post, makes no call
\* that sends a message, and user_data stays as it was to the end of the
\* invocation.
C15_NoCacheNotice ==
    [][/\ ( /\ h.op = "button" /\ h.result = "running" /\ h.pc = "answer"
            /\ h'.pc # "answer"
            /\ CacheGet(user_data.last_sub) = <<>> ) =>
            /\ h'.pc = "edit_message_caption"
            /\ h'.action = h.action
            /\ h'.sub = None /\ h'.post = NoPost
            /\ user_data' = user_data
            /\ Len(out') = 2
            /\ out'[1].op = "answer" /\ out'[1].status = "ok"
            /\ out'[2].op = "edit_message_caption"
            /\ out'[2].target = h.mid
            /\ out'[2].photo = <<>>
            /\ out'[2].text = "No cached posts for r/" \o user_data.last_sub \o "."
       /\ (h'.op = "button" /\ h'.pc = "edit_message_caption") =>
            /\ user_data' = user_data
            /\ Len(out') = 2
            /\ (h.pc = "edit_message_caption" /\ h.result # "running") => h' = h]_vars

\* A press of Random in a conversation that has no last_sub has ended with
\* the notice "No cached posts for r/None." while every subreddit has posts.
C15_Witness ==
    /\ h.op = "button" /\ h.action = "random"
    /\ h.pc = "edit_message_caption" /\ h.result = "returned"
    /\ user_data = NoSession
    /\ Last(out).text = "No cached posts for r/None."
    /\ Last(out).status = "ok"
    /\ \A t \in Topics : reddit_cache[t] # <<>>

\* C16: whenever no handler invocation is in flight, user_data names the
\* subreddit and the post of the photo the conversation was last shown (by a
\* send or an edit that was carried out), and names none when none was shown.
C16_SessionIsLastShown ==
    h.result # "running" => user_data = rendered

\* C17: the keys of reddit_cache are the configured subreddits in every
\* state, and no step makes an entry that has posts empty, whatever the
\* fetch of the step returns.
C17_NonEmptyStays ==
    [][/\ DOMAIN reddit_cache = Topics
       /\ DOMAIN reddit_cache' = Topics
       /\ \A t \in Topics :
             reddit_cache[t] # <<>> => reddit_cache'[t] # <<>>]_vars

\* The fetch of the first subreddit has failed in a later cycle and returned
\* nothing; the entry still has two posts.
C17_Witness ==
    /\ i = 2
    /\ ~data.ok /\ warned /\ posts = <<>>
    /\ Len(reddit_cache[SUBREDDITS[1]]) = 2

\* C18: in every state last_sub is None or a configured subreddit and
\* last_post is set only when last_sub is; and the step that writes last_post
\* is a handler step that leaves the cache alone and writes a post of the
\* entry that last_sub has in the state of that step. (After a later refresh
\* the post may no longer be in the entry: C18_Witness.)
C18_SessionWellFormed ==
    [][/\ user_data.last_sub \in Topics \cup {None}
       /\ user_data'.last_sub \in Topics \cup {None}
       /\ user_data'.last_post # NoPost => user_data'.last_sub \in Topics
       /\ user_data' # user_data => HandlerReads
       /\ ( HandlerReads /\ h'.pc \in {"reply_photo", "edit_message_media",
                                        "query.edit_message_media"} ) =>
             /\ reddit_cache' = reddit_cache
             /\ user_data'.last_sub \in Topics
             /\ user_data'.last_sub = h'.sub
             /\ user_data'.last_post = h'.post
             /\ user_data'.last_post \in
                    Range(reddit_cache[user_data'.last_sub])]_vars

\* A handler has recorded the first post of an entry of two posts, and a
\* later fetch has replaced the entry by a list without that post.
C18_Witness ==
    /\ h.result = "returned"
    /\ user_data.last_sub \in Topics
    /\ user_data.last_post.id = "1"
    /\ reddit_cache[user_data.last_sub] # <<>>
    /\ user_data.last_post \notin Range(reddit_cache[user_data.last_sub])

\* C19: in every state the subreddit user_data records as last_sub has posts
\* cached, so button_handler takes its branch without posts, and edits the
\* caption to its notice, only in a conversation whose last_sub is None
\* (the notice then reads "No cached posts for r/None.").
C19_NoticeOnlyWithoutLastSub ==
    [][/\ user_data'.last_sub # None => CacheGet(user_data'.last_sub) # <<>>
       /\ (h'.op = "button" /\ h'.pc = "edit_message_caption") =>
             /\ user_data'.last_sub = None
             /\ Last(out').text = "No cached posts for r/None."
       /\ \A j \in 1..Len(out') :
             out'[j].op = "edit_message_caption" =>
                 (h'.op = "button" /\ h'.pc = "edit_message_caption")]_vars

\* A button press of a conversation whose last_sub is the first subreddit
\* has found posts and edits the message, after the latest fetch of that
\* subreddit has failed and returned nothing.
C19_Witness ==
    /\ h.op = "button" /\ h.result = "running"
    /\ h.pc \in {"edit_message_media", "query.edit_message_media"}
    /\ user_data.last_sub = SUBREDDITS[1]
    /\ i = 2 /\ warned /\ posts = <<>>
    /\ Last(out).op = "edit_message_media" /\ Last(out).status = "pending"

=============================================================================
